---------------------------- MODULE Spec2Model ----------------------------
(***************************************************************************)
(* Model of the plotting pipeline of criterion.rs (src/plot/mod.rs) and of *)
(* the filesystem helper it relies on (src/fs.rs).                         *)
(*                                                                         *)
(* Two specifications are defined:                                         *)
(*   Spec       one call of summarize(group_id, all_ids, output_directory) *)
(*              stepping through the two generations "new" and "base";     *)
(*   SpecScale  the pure function scale_time applied to a bounded set of   *)
(*              inputs.                                                    *)
(*                                                                         *)
(* f64 values are modelled by integers (nanoseconds) inside summarize and  *)
(* by exact rationals num/den where scale_time needs sub-nanosecond        *)
(* inputs.  Text (labels, formatted ratios) is modelled as sequences of    *)
(* one-character strings so that parsing and formatting are computed.      *)
(***************************************************************************)
EXTENDS Integers, Sequences, FiniteSets, TLC

(***************************************************************************)
(* Bounds                                                                  *)
(***************************************************************************)
\* largest number of ids handed to summarize in all_ids
MaxEntries == 3
\* number of sub-nanosecond / off-threshold probes around each threshold
ScaleSpread == 6

(***************************************************************************)
(* Generic helpers                                                         *)
(***************************************************************************)
Range(s) == {s[i] : i \in DOMAIN s}

SeqMax(s) == CHOOSE m \in Range(s) : \A v \in Range(s) : v <= m

RECURSIVE Pow10(_)
Pow10(e) == IF e = 0 THEN 1 ELSE 10 * Pow10(e - 1)

\* An f64 carrying the integer n.
Real(n) == [num |-> n, den |-> 1]

\* x < k for a rational x = num/den (den > 0) and an integer k:
\* x < k  <=>  floor(x) < k.
Lt(x, k) == (x.num \div x.den) < k

\* scale_time with the prefixes one row late: "p" up to 1e3, "n" up to 1e6.
scale_time_late(ns) ==
    IF Lt(ns, Pow10(3)) THEN <<3, "p">>
    ELSE IF Lt(ns, Pow10(6)) THEN <<0, "n">>
    ELSE IF Lt(ns, Pow10(9)) THEN <<-3, "u">>
    ELSE <<-6, "m">>

\* scale_time with closed intervals: every `<` written `<=`.
scale_time_closed(ns) ==
    IF ns.num <= Pow10(0) * ns.den THEN <<3, "p">>
    ELSE IF ns.num <= Pow10(3) * ns.den THEN <<0, "n">>
    ELSE IF ns.num <= Pow10(6) * ns.den THEN <<-3, "u">>
    ELSE IF ns.num <= Pow10(9) * ns.den THEN <<-6, "m">>
    ELSE <<-9, "">>

(***************************************************************************)
(* scale_time (src/plot/mod.rs:22-34).  The factor 10f64.powi(e) is        *)
(* represented by its exponent e.                                          *)
(***************************************************************************)
scale_time(ns) ==
    IF Lt(ns, Pow10(0)) THEN <<3, "p">>
    ELSE IF Lt(ns, Pow10(3)) THEN <<0, "n">>
    ELSE IF Lt(ns, Pow10(6)) THEN <<-3, "u">>
    ELSE IF Lt(ns, Pow10(9)) THEN <<-6, "m">>
    ELSE <<-9, "">>

(***************************************************************************)
(* Text                                                                    *)
(***************************************************************************)
Digits == <<"0", "1", "2", "3", "4", "5", "6", "7", "8", "9">>

IsDigit(c) == c \in Range(Digits)

DigitVal(c) == (CHOOSE i \in DOMAIN Digits : Digits[i] = c) - 1

DigitChar(d) == Digits[d + 1]

\* label.parse::<usize>() (src/plot/mod.rs:717): an optional leading "+",
\* then one or more decimal digits and nothing else.  The result is the
\* Result<usize, _>: ok = FALSE stands for Err.  (Labels are far shorter
\* than the 20 digits an overflow of usize needs.)
RECURSIVE ParseDigits(_, _)
ParseDigits(s, acc) ==
    IF s = <<>> THEN [ok |-> TRUE, val |-> acc]
    ELSE IF IsDigit(Head(s)) THEN ParseDigits(Tail(s), 10 * acc + DigitVal(Head(s)))
    ELSE [ok |-> FALSE, val |-> 0]

\* A parse that accepts decimal fractions as f64 would: the digits before a
\* "." give the value.
parse_usize_fraction(label) ==
    LET dots  == {i \in DOMAIN label : label[i] = "."}
        whole == IF dots = {} THEN label
                 ELSE SubSeq(label, 1, (CHOOSE i \in dots : \A j \in dots : i <= j) - 1)
        rest  == IF dots = {} THEN <<>>
                 ELSE SubSeq(label, Len(whole) + 2, Len(label))
    IN  IF whole = <<>> \/ ~ParseDigits(rest, 0).ok THEN [ok |-> FALSE, val |-> 0]
        ELSE ParseDigits(whole, 0)

parse_usize(label) ==
    LET body == IF label # <<>> /\ Head(label) = "+" THEN Tail(label) ELSE label
    IN  IF body = <<>> THEN [ok |-> FALSE, val |-> 0]
        ELSE ParseDigits(body, 0)

\* Decimal digits of a natural number.
RECURSIVE NatToStr(_)
NatToStr(n) ==
    IF n < 10 THEN <<DigitChar(n)>>
    ELSE NatToStr(n \div 10) \o <<DigitChar(n % 10)>>

\* format!("{:.02}", x / min) (src/plot/mod.rs:852) for positive x and min:
\* the quotient rounded to the nearest hundredth (ties to even), printed
\* with exactly two decimals.
Format2(x, min) ==
    LET q  == (100 * x) \div min
        r  == (100 * x) % min
        h  == IF 2 * r > min \/ (2 * r = min /\ q % 2 = 1) THEN q + 1 ELSE q
    IN  NatToStr(h \div 100) \o <<".", DigitChar((h % 100) \div 10), DigitChar(h % 10)>>


(***************************************************************************)
(* The benchmark directories summarize may be pointed at.                  *)
(***************************************************************************)
Statistics == {"Mean", "Median", "Slope"}

Samples == <<"new", "base">>

SUMMARY == <<"s", "u", "m", "m", "a", "r", "y">>

\* Estimate { point_estimate, confidence_interval { lower_bound, upper_bound } }
Est(p, below, above) ==
    [point_estimate |-> p,
     confidence_interval |-> [lower_bound |-> p - below, upper_bound |-> p + above]]

\* Estimates: Statistic -> Estimate
Ests(mean, median, slope, below, above) ==
    [st \in Statistics |->
        IF st = "Mean" THEN Est(mean, below, above)
        ELSE IF st = "Median" THEN Est(median, below, above)
        ELSE Est(slope, below, above)]

\* One directory entry below output_directory: its file name, whether it is
\* a directory, and for each generation whether estimates.json and
\* sample.json load, what estimates.json holds, and the (iters, times) of
\* sample.json.
Dir(name, is_dir, est_new, est_base, sample_new, sample_base, e_new, e_base, times) ==
    [name |-> name, is_dir |-> is_dir,
     est_ok |-> [new |-> est_new, base |-> est_base],
     sample_ok |-> [new |-> sample_new, base |-> sample_base],
     estimates |-> [new |-> e_new, base |-> e_base],
     iters |-> <<1, 2, 4>>, times |-> times]

Pool ==
    { Dir(<<"1">>, TRUE, TRUE, TRUE, TRUE, TRUE,
          Ests(10, 10, 20, 1, 2), Ests(10, 5, 10, 1, 2), <<10, 22, 36>>),
      Dir(<<"2">>, TRUE, TRUE, TRUE, TRUE, TRUE,
          Ests(5, 20, 5, 2, 3), Ests(20, 10, 5, 2, 3), <<20, 38, 84>>),
      Dir(<<"1", "0">>, TRUE, TRUE, FALSE, TRUE, TRUE,
          Ests(20, 5, 10, 3, 4), Ests(20, 5, 10, 3, 4), <<5, 12, 16>>),
      Dir(<<"1", ".", "5">>, TRUE, TRUE, TRUE, TRUE, TRUE,
          Ests(15, 15, 15, 4, 5), Ests(15, 20, 20, 4, 5), <<15, 30, 64>>),
      Dir(<<"a">>, TRUE, TRUE, TRUE, FALSE, TRUE,
          Ests(20, 10, 5, 2, 1), Ests(5, 15, 15, 2, 1), <<14, 30, 64>>),
      Dir(SUMMARY, TRUE, TRUE, TRUE, TRUE, TRUE,
          Ests(10, 10, 10, 1, 1), Ests(10, 10, 10, 1, 1), <<10, 20, 40>>),
      Dir(<<"b">>, FALSE, FALSE, FALSE, FALSE, FALSE,
          Ests(10, 10, 10, 1, 1), Ests(10, 10, 10, 1, 1), <<10, 20, 40>>) }

\* The values of `contents`: one entry per id of all_ids, ids distinct.
AllContents ==
    UNION { {c \in [1..n -> Pool] : \A i, j \in 1..n : c[i] = c[j] => i = j}
            : n \in 0..MaxEntries }

(***************************************************************************)
(* summarize: loading the entries (src/plot/mod.rs:701-725)                *)
(***************************************************************************)
None == [some |-> FALSE]

Some(v) == [some |-> TRUE, val |-> v]

\* iters.zip(times).map(|(iters, time)| time / iters)
avg_times(iters, times) ==
    LET n == IF Len(iters) < Len(times) THEN Len(iters) ELSE Len(times)
    IN  [i \in 1..n |-> times[i] \div iters[i]]

\* The candidate test without the exclusion of "summary".
IsCandidate_any_dir(entry) == entry.is_dir

\* is_dir() && file_name() != Some("summary")
IsCandidate(entry) == entry.is_dir /\ entry.name # SUMMARY

\* The closure handed to filter_map, for one entry.
load_entry(entry, sample) ==
    IF IsCandidate(entry) THEN
        IF entry.est_ok[sample] THEN
            IF entry.sample_ok[sample] THEN
                Some([label |-> entry.name,
                      input |-> parse_usize(entry.name),
                      estimates |-> entry.estimates[sample],
                      sample |-> avg_times(entry.iters, entry.times)])
            ELSE None
        ELSE None
    ELSE None

RECURSIVE filter_map(_, _)
filter_map(c, sample) ==
    IF c = <<>> THEN <<>>
    ELSE LET r == load_entry(Head(c), sample)
         IN  (IF r.some THEN <<r.val>> ELSE <<>>) \o filter_map(Tail(c), sample)

\* The length test with the threshold 1.
TooFew_one(b) == Len(b) < 1

\* if benches.len() < 2 { continue; }
TooFew(b) == Len(b) < 2

(***************************************************************************)
(* summarize: mode selection and sorting (src/plot/mod.rs:738-745, 823-827)*)
(***************************************************************************)
\* benches.iter().all(|&(_, ref input, _, _)| input.is_ok())
AllNumeric(b) == \A i \in DOMAIN b : b[i].input.ok

\* slice::sort_by is stable: the result orders the elements by key and keeps
\* the input order of elements with equal keys.
sort_by(s, keys) ==
    LET rank(i) == 1 + Cardinality({j \in DOMAIN s :
                        keys[j] < keys[i] \/ (keys[j] = keys[i] /\ j < i)})
    IN  [r \in DOMAIN s |-> s[CHOOSE i \in DOMAIN s : rank(i) = r]]

\* Numeric mode without the sort.
numeric_benches_unsorted(b) ==
    [i \in DOMAIN b |-> [b[i] EXCEPT !.input = b[i].input.val]]

\* map(.. input.unwrap() ..) then sort_by(|a, b| a.cmp(&b)) on the input
numeric_benches(b) ==
    LET unwrapped == [i \in DOMAIN b |-> [b[i] EXCEPT !.input = b[i].input.val]]
    IN  sort_by(unwrapped, [i \in DOMAIN b |-> unwrapped[i].input])

\* sort_by(|a, b| b[statistic].point_estimate.partial_cmp(a[..]) .unwrap())
sort_descending(b, statistic) ==
    sort_by(b, [i \in DOMAIN b |-> 0 - b[i].estimates[statistic].point_estimate])

\* The categorical passes with Median before Slope.
NumericOrder_slope_second == <<"Mean", "Slope", "Median">>

NumericOrder == <<"Mean", "Median", "Slope">>

CategoricalOrder_slope_last == <<"Mean", "Median", "Slope">>

CategoricalOrder == <<"Mean", "Slope", "Median">>

(***************************************************************************)
(* summarize: the figures (src/plot/mod.rs:750-815, 829-905, 909-1003)     *)
(***************************************************************************)
points_of(b, statistic) ==
    [i \in DOMAIN b |-> b[i].estimates[statistic].point_estimate]

lbs_of(b, statistic) ==
    [i \in DOMAIN b |-> b[i].estimates[statistic].confidence_interval.lower_bound]

ubs_of(b, statistic) ==
    [i \in DOMAIN b |-> b[i].estimates[statistic].confidence_interval.upper_bound]

inputs_of(b) == [i \in DOMAIN b |-> b[i].input]

labels_of(b) == [i \in DOMAIN b |-> b[i].label]

\* dir.join(format!("summary/{}/{}s.svg", sample, statistic))
stat_path(sample, statistic) ==
    [sample |-> sample, stem |-> <<statistic, "s">>, ext |-> "svg"]

\* dir.join(format!("summary/{}/violin_plot.svg", sample))
violin_path(sample) ==
    [sample |-> sample, stem |-> <<"violin_plot">>, ext |-> "svg"]

\* PathBuf::set_extension
set_extension(path, ext) == [path EXCEPT !.ext = ext]

\* Numeric mode: YErrorBars { x: inputs, y: points, y_low: lbs, y_high: ubs }
numeric_figure(b, statistic, sample) ==
    LET ubs == ubs_of(b, statistic)
        st  == scale_time(Real(SeqMax(ubs)))
    IN  [kind |-> "YErrorBars", path |-> stat_path(sample, statistic),
         statistic |-> statistic,
         x |-> inputs_of(b), y |-> points_of(b, statistic),
         y_low |-> lbs_of(b, statistic), y_high |-> ubs,
         scale |-> st[1], prefix |-> st[2]]

\* The ratios taken against the first point instead of the last.
rel_of_first(points) ==
    [i \in DOMAIN points |-> Format2(points[i], points[1])]

\* let min = *points.last().unwrap();
\* points.iter().map(|&x| format!("{:.02}", x / min))
rel_of(points) ==
    LET min == points[Len(points)]
    IN  [i \in DOMAIN points |-> Format2(points[i], min)]

\* Categorical mode, on the benches as sorted for this statistic:
\* XErrorBars { x: points, y: tics, x_low: lbs, x_high: ubs }, the entry
\* labels as tics of the left axis and the ratios as tics of the right axis.
categorical_figure(b, statistic, sample) ==
    LET points == points_of(b, statistic)
        ubs    == ubs_of(b, statistic)
        st     == scale_time(Real(SeqMax(ubs)))
    IN  [kind |-> "XErrorBars", path |-> stat_path(sample, statistic),
         statistic |-> statistic,
         x |-> points, x_low |-> lbs_of(b, statistic), x_high |-> ubs,
         left_labels |-> labels_of(b), right_labels |-> rel_of(points),
         scale |-> st[1], prefix |-> st[2]]

\* kde::sweep(sample, KDE_POINTS, None) with every y divided by the largest
\* y.  The sweep is an external routine: the curve is represented by the
\* sample it was swept over and by its peak height after the division.
kde_of(sample) == [over |-> sample, y_max |-> 1]

\* Sample::new(sample).percentiles().median()
median_of(sample) ==
    LET n      == Len(sample)
        sorted == sort_by(sample, sample)
    IN  IF n % 2 = 1 THEN sorted[(n + 1) \div 2]
        ELSE (sorted[n \div 2] + sorted[n \div 2 + 1]) \div 2

\* The violin plot: one row per entry of benches, in the order benches has
\* when the plot is built.
violin_figure(b, sample) ==
    [kind |-> "Violin", path |-> violin_path(sample),
     left_labels |-> labels_of(b),
     medians |-> [i \in DOMAIN b |-> median_of(b[i].sample)],
     kdes |-> [i \in DOMAIN b |-> kde_of(b[i].sample)]]

(***************************************************************************)
(* State                                                                   *)
(***************************************************************************)
VARIABLES
    debug,         \* ::debug_enabled()
    contents,      \* the directory entries named by all_ids, in order
    pc,            \* position of the call
    s,             \* index into Samples of the generation being processed
    benches,       \* the loaded entries of the current generation
    mode,          \* "none", "numeric" or "categorical"
    k,             \* number of the next figure of the current generation
    figures,       \* the figures built so far in the current generation
    gnuplots,      \* handles collected for the current generation
    all_gnuplots,  \* handles collected over the generations
    result,        \* the Vec<Child> returned, once pc = "returned"
    abort,         \* what made the call panic, "none" otherwise
    launched,      \* output paths of the render processes spawned, in order
    mkdirs,        \* generations whose summary directory mkdirp was asked for
    dirs,          \* summary directories that exist
    scripts,       \* script files written by debug_script
    log,           \* script paths whose write failure was logged by error!
    ns,            \* SpecScale: the input of scale_time
    scaled,        \* SpecScale: <<>> or <<scale_time(ns)>>
    func,          \* the function called, when it is not summarize
    labeled_sample,\* pdf: the (time, label) pairs of labeled_sample.iter()
    data_x,        \* pdf: data.x(), the iteration counts
    curve_xs,      \* SpecCurve: the xs of a swept curve
    curve_ys,      \* SpecCurve: its ys
    query,         \* SpecCurve: the point estimate p and the bounds lb, ub
    geom,          \* SpecCurve: <<>> or the one geometry computed
    distributions, \* abs/rel_distributions: the keys of distributions, in
                   \* iteration order
    estimates,     \* abs/rel_distributions: statistic -> Estimate
    nt             \* rel_distributions: the noise threshold

vars == <<debug, contents, pc, s, benches, mode, k, figures, gnuplots,
          all_gnuplots, result, abort, launched, mkdirs, dirs, scripts, log,
          ns, scaled, func, labeled_sample, data_x, curve_xs, curve_ys, query,
          geom, distributions, estimates, nt>>

scale_vars == <<ns, scaled>>

\* The inputs and outputs of the functions other than summarize.
geom_vars == <<func, labeled_sample, data_x, curve_xs, curve_ys, query, geom,
               distributions, estimates, nt>>

\* No function other than summarize is called.
GeomIdle ==
    /\ func = "none"
    /\ labeled_sample = <<>>
    /\ data_x = <<>>
    /\ curve_xs = <<>>
    /\ curve_ys = <<>>
    /\ query = <<>>
    /\ geom = <<>>
    /\ distributions = <<>>
    /\ estimates = <<>>
    /\ nt = 0

fs_vars == <<mkdirs, dirs, scripts, log>>

Init ==
    /\ debug \in BOOLEAN
    /\ contents \in AllContents
    /\ pc = "loop"
    /\ s = 1
    /\ benches = <<>>
    /\ mode = "none"
    /\ k = 0
    /\ figures = <<>>
    /\ gnuplots = <<>>
    /\ all_gnuplots = <<>>
    /\ result = <<>>
    /\ abort = "none"
    /\ launched = <<>>
    /\ mkdirs = {}
    /\ dirs = {}
    /\ scripts = {}
    /\ log = {}
    /\ ns = Real(0)
    /\ scaled = <<>>
    /\ GeomIdle

(***************************************************************************)
(* summarize, step by step                                                 *)
(***************************************************************************)
\* for &sample in &["new", "base"] { let mut benches = ...collect(); }
LoadBenches ==
    /\ pc = "loop"
    /\ s <= Len(Samples)
    /\ benches' = filter_map(contents, Samples[s])
    /\ mode' = "none"
    /\ k' = 0
    /\ figures' = <<>>
    /\ gnuplots' = <<>>
    /\ pc' = "check_len"
    /\ UNCHANGED <<debug, contents, s, all_gnuplots, result, abort, launched>>
    /\ UNCHANGED fs_vars
    /\ UNCHANGED scale_vars
    /\ UNCHANGED geom_vars

\* if benches.len() < 2 { continue; }
SkipGeneration ==
    /\ pc = "check_len"
    /\ TooFew(benches)
    /\ s' = s + 1
    /\ pc' = "loop"
    /\ UNCHANGED <<debug, contents, benches, mode, k, figures, gnuplots,
                   all_gnuplots, result, abort, launched>>
    /\ UNCHANGED fs_vars
    /\ UNCHANGED scale_vars
    /\ UNCHANGED geom_vars

\* What fs::mkdirp can do.  src/fs.rs has mkdirp fail! on an error ("fail"),
\* the call site in summarize treats it as a Result and returns on Err
\* ("err").
MkdirOutcomes == {"ok", "err", "fail"}

\* The value of `|| vec![]`, returned by summarize when mkdirp is an Err.
mkdirp_else(all) == <<>>

\* try_else_return!(fs::mkdirp(&dir.join(format!("summary/{}", sample))), || vec![])
Mkdirp ==
    /\ pc = "check_len"
    /\ ~TooFew(benches)
    /\ mkdirs' = mkdirs \cup {Samples[s]}
    /\ \E outcome \in MkdirOutcomes :
        \/ /\ outcome = "ok"
           /\ dirs' = dirs \cup {Samples[s]}
           /\ pc' = "mode"
           /\ UNCHANGED <<result, abort>>
        \/ /\ outcome = "err"
           /\ result' = mkdirp_else(all_gnuplots)
           /\ pc' = "returned"
           /\ UNCHANGED <<dirs, abort>>
        \/ /\ outcome = "fail"
           /\ abort' = "mkdirp"
           /\ pc' = "panicked"
           /\ UNCHANGED <<dirs, result>>
    /\ UNCHANGED <<debug, contents, s, benches, mode, k, figures, gnuplots,
                   all_gnuplots, launched, scripts, log>>
    /\ UNCHANGED scale_vars
    /\ UNCHANGED geom_vars

\* let gnuplots = if benches.iter().all(..is_ok()) { map unwrap; sort_by input .. }
\*                else { .. }
SelectMode ==
    /\ pc = "mode"
    /\ IF AllNumeric(benches)
       THEN mode' = "numeric" /\ benches' = numeric_benches(benches)
       ELSE mode' = "categorical" /\ benches' = benches
    /\ k' = 1
    /\ pc' = "plot"
    /\ UNCHANGED <<debug, contents, s, figures, gnuplots, all_gnuplots, result,
                   abort, launched>>
    /\ UNCHANGED fs_vars
    /\ UNCHANGED scale_vars
    /\ UNCHANGED geom_vars

(***************************************************************************)
(* debug_script (src/plot/mod.rs:47-57) and draw().unwrap()                *)
(***************************************************************************)
\* What figure.save(script_path) can do; "skip" when debug is off and save
\* is not called.
WriteOutcomes == IF debug THEN {"ok", "err"} ELSE {"skip"}

script_path(path) == set_extension(path, "gnuplot")

\* The script files after debug_script(path, figure) whose save did w.
scripts_after(path, w) ==
    IF debug /\ w = "ok" THEN scripts \cup {script_path(path)} ELSE scripts

\* The error log after debug_script(path, figure) whose save did w.
log_after(path, w) ==
    IF debug /\ w = "err" THEN log \cup {script_path(path)} ELSE log

\* A debug_script that gives up on a failed save.
pc_after_debug_fatal(w) == IF w = "err" THEN "panicked" ELSE "draw"

\* debug_script returns () whatever save did: the caller goes on to draw.
pc_after_debug(w) == "draw"

debug_script(path) ==
    \E w \in WriteOutcomes :
        /\ scripts' = scripts_after(path, w)
        /\ log' = log_after(path, w)
        /\ pc' = pc_after_debug(w)

\* What Figure::draw, the spawn of the render process, can do.
DrawOutcomes == {"ok", "err"}

\* The handle of a spawned render process.
Child(path) == [output |-> path]

\* A draw whose error is dropped instead of unwrapped.
pc_after_draw_ignored(outcome) == "plot"

\* .draw().unwrap(): Ok(child) is the value of the closure, Err panics.
pc_after_draw(outcome) == IF outcome = "ok" THEN "plot" ELSE "panicked"

\* Number of figures of a generation: one per statistic, and the violin plot
\* in categorical mode.
NumFigures(m) ==
    IF m = "numeric" THEN Len(NumericOrder) ELSE Len(CategoricalOrder) + 1

\* [Mean, Median, Slope].iter().map(|&statistic| { .. debug_script(..); ..
PlotNumeric ==
    /\ pc = "plot"
    /\ mode = "numeric"
    /\ k <= Len(NumericOrder)
    /\ LET figure == numeric_figure(benches, NumericOrder[k], Samples[s])
       IN  /\ figures' = Append(figures, figure)
           /\ debug_script(figure.path)
    /\ UNCHANGED <<debug, contents, s, benches, mode, k, gnuplots,
                   all_gnuplots, result, abort, launched, mkdirs, dirs>>
    /\ UNCHANGED scale_vars
    /\ UNCHANGED geom_vars

\* [Mean, Slope, Median].iter().map(|&statistic| { benches.sort_by(..); ..
\*     debug_script(..); ..
PlotCategorical ==
    /\ pc = "plot"
    /\ mode = "categorical"
    /\ k <= Len(CategoricalOrder)
    /\ benches' = sort_descending(benches, CategoricalOrder[k])
    /\ LET figure == categorical_figure(benches', CategoricalOrder[k], Samples[s])
       IN  /\ figures' = Append(figures, figure)
           /\ debug_script(figure.path)
    /\ UNCHANGED <<debug, contents, s, mode, k, gnuplots, all_gnuplots,
                   result, abort, launched, mkdirs, dirs>>
    /\ UNCHANGED scale_vars
    /\ UNCHANGED geom_vars

\* .collect::<Vec<_>>().append_({ .. debug_script(&path, &f); ..
ViolinPlot ==
    /\ pc = "plot"
    /\ mode = "categorical"
    /\ k = Len(CategoricalOrder) + 1
    /\ LET figure == violin_figure(benches, Samples[s])
       IN  /\ figures' = Append(figures, figure)
           /\ debug_script(figure.path)
    /\ UNCHANGED <<debug, contents, s, benches, mode, k, gnuplots,
                   all_gnuplots, result, abort, launched, mkdirs, dirs>>
    /\ UNCHANGED scale_vars
    /\ UNCHANGED geom_vars

\* figure.set(Output(path)).draw().unwrap() for the figure just built
Draw ==
    /\ pc = "draw"
    /\ LET path == figures[Len(figures)].path
       IN  \E outcome \in DrawOutcomes :
            /\ launched' = IF outcome = "ok" THEN Append(launched, path) ELSE launched
            /\ gnuplots' = IF outcome = "ok" THEN Append(gnuplots, Child(path))
                           ELSE gnuplots
            /\ abort' = IF outcome = "ok" THEN abort ELSE "launch"
            /\ k' = IF outcome = "ok" THEN k + 1 ELSE k
            /\ pc' = pc_after_draw(outcome)
    /\ UNCHANGED <<debug, contents, s, benches, mode, figures, all_gnuplots,
                   result>>
    /\ UNCHANGED fs_vars
    /\ UNCHANGED scale_vars
    /\ UNCHANGED geom_vars

\* all_gnuplots.extend(gnuplots); and on to the next generation
Extend ==
    /\ pc = "plot"
    /\ k > NumFigures(mode)
    /\ all_gnuplots' = all_gnuplots \o gnuplots
    /\ s' = s + 1
    /\ pc' = "loop"
    /\ UNCHANGED <<debug, contents, benches, mode, k, figures, gnuplots,
                   result, abort, launched>>
    /\ UNCHANGED fs_vars
    /\ UNCHANGED scale_vars
    /\ UNCHANGED geom_vars

\* all_gnuplots, the value of summarize
Return ==
    /\ pc = "loop"
    /\ s > Len(Samples)
    /\ result' = all_gnuplots
    /\ pc' = "returned"
    /\ UNCHANGED <<debug, contents, s, benches, mode, k, figures, gnuplots,
                   all_gnuplots, abort, launched>>
    /\ UNCHANGED fs_vars
    /\ UNCHANGED scale_vars
    /\ UNCHANGED geom_vars

Next ==
    \/ LoadBenches
    \/ SkipGeneration
    \/ Mkdirp
    \/ SelectMode
    \/ PlotNumeric
    \/ PlotCategorical
    \/ ViolinPlot
    \/ Draw
    \/ Extend
    \/ Return

Spec == Init /\ [][Next]_vars

TypeOK ==
    /\ pc \in {"loop", "check_len", "mode", "plot", "draw", "returned", "panicked",
              "curve", "geometry"}
    /\ s \in 1..(Len(Samples) + 1)
    /\ mode \in {"none", "numeric", "categorical"}
    /\ abort \in {"none", "mkdirp", "launch", "key", "geometry"}
    /\ Len(benches) <= MaxEntries

(***************************************************************************)
(* SpecScale: scale_time applied to inputs around its thresholds           *)
(***************************************************************************)
\* The inputs: every threshold of scale_time, and 0, plus or minus up to
\* ScaleSpread whole and half nanoseconds.
ScaleInputs ==
    { [num |-> t * d + j, den |-> d] :
        t \in {0, Pow10(0), Pow10(3), Pow10(6), Pow10(9)},
        d \in {1, 2},
        j \in (0 - ScaleSpread)..ScaleSpread }

InitScale ==
    /\ ns \in ScaleInputs
    /\ scaled = <<>>
    /\ debug = FALSE
    /\ contents = <<>>
    /\ pc = "scale"
    /\ s = 1
    /\ benches = <<>>
    /\ mode = "none"
    /\ k = 0
    /\ figures = <<>>
    /\ gnuplots = <<>>
    /\ all_gnuplots = <<>>
    /\ result = <<>>
    /\ abort = "none"
    /\ launched = <<>>
    /\ mkdirs = {}
    /\ dirs = {}
    /\ scripts = {}
    /\ log = {}
    /\ GeomIdle

\* let (scale, prefix) = scale_time(ns);
ApplyScale ==
    /\ pc = "scale"
    /\ scaled = <<>>
    /\ scaled' = <<scale_time(ns)>>
    /\ UNCHANGED <<debug, contents, pc, s, benches, mode, k, figures, gnuplots,
                   all_gnuplots, result, abort, launched, ns>>
    /\ UNCHANGED fs_vars
    /\ UNCHANGED geom_vars

NextScale == ApplyScale

SpecScale == InitScale /\ [][NextScale]_vars

(***************************************************************************)
(* Properties                                                              *)
(***************************************************************************)
\* An entry that summarize can use for a generation: a directory not named
\* "summary" whose estimates and sample data both load.
Loads(entry, sample) ==
    /\ entry.is_dir
    /\ entry.name # SUMMARY
    /\ entry.est_ok[sample]
    /\ entry.sample_ok[sample]

Usable(sample) == {i \in DOMAIN contents : Loads(contents[i], sample)}

\* The filter of generation number i has run.
Filtered(i) == i < s \/ (i = s /\ pc # "loop")

\* The one-to-one assignments of the rows 1..n to positions of contents.
Rows(n, positions) ==
    {f \in [1..n -> positions] : \A i, j \in 1..n : f[i] = f[j] => i = j}

\* C1: a generation with fewer than 2 loadable entries launches no render,
\* asks for no summary directory, writes and logs nothing, raises nothing and
\* contributes no handle; the call goes on with the next generation.
C1_SkipInv ==
    \A i \in DOMAIN Samples :
        (Filtered(i) /\ Cardinality(Usable(Samples[i])) < 2) =>
            /\ \A j \in DOMAIN launched : launched[j].sample # Samples[i]
            /\ Samples[i] \notin mkdirs
            /\ Samples[i] \notin dirs
            /\ \A sp \in scripts \cup log : sp.sample # Samples[i]
            /\ \A j \in DOMAIN all_gnuplots : all_gnuplots[j].output.sample # Samples[i]
            /\ \A j \in DOMAIN result : result[j].output.sample # Samples[i]
            /\ i = s => (pc = "check_len" /\ abort = "none" /\ gnuplots = <<>>)

C1_SkipStep ==
    (pc = "check_len" /\ Cardinality(Usable(Samples[s])) < 2) =>
        /\ pc' = "loop"
        /\ s' = s + 1
        /\ UNCHANGED <<launched, mkdirs, dirs, scripts, log, all_gnuplots,
                       result, abort>>

C1_SkipShortGeneration == []C1_SkipInv /\ [][C1_SkipStep]_vars

\* C1 witness: "new" had exactly one loadable entry and was skipped, and the
\* call is drawing the figures of "base".
C1_Witness ==
    /\ s = 2
    /\ pc = "draw"
    /\ Cardinality(Usable("new")) = 1
    /\ Cardinality(Usable("base")) >= 2
    /\ launched = <<>>
    /\ mkdirs = {"base"}

\* C2: when mkdirp fails for one generation the handles of the renders
\* already launched for the other generation are still returned: whenever
\* summarize has returned, every render process it spawned has its handle in
\* the result.
C2_OtherGenerationKept ==
    pc = "returned" =>
        \A j \in DOMAIN launched : Child(launched[j]) \in Range(result)

\* The claim's reading of "parses as a non-negative number": an optional
\* "+", digits and at most one ".", with at least one digit.
IsNonNegativeNumber(label) ==
    LET body == IF label # <<>> /\ Head(label) = "+" THEN Tail(label) ELSE label
    IN  /\ \A i \in DOMAIN body : IsDigit(body[i]) \/ body[i] = "."
        /\ Cardinality({i \in DOMAIN body : body[i] = "."}) <= 1
        /\ \E i \in DOMAIN body : IsDigit(body[i])

\* A non-negative decimal integer: an optional "+" and one or more digits.
IsUnsignedInteger(label) ==
    LET body == IF label # <<>> /\ Head(label) = "+" THEN Tail(label) ELSE label
    IN  /\ body # <<>>
        /\ \A i \in DOMAIN body : IsDigit(body[i])

ModeChosen == pc \in {"plot", "draw"} \/ (pc = "panicked" /\ abort = "launch")

EstimateAt(p, f) == contents[p].estimates[f.path.sample][f.statistic]

names_of(c) == [i \in DOMAIN c |-> c[i].name]

Ascending(x) == \A i, j \in DOMAIN x : i < j => x[i] <= x[j]

Descending(x) == \A i, j \in DOMAIN x : i < j => x[i] >= x[j]

NumericFigures == {j \in DOMAIN figures : figures[j].kind = "YErrorBars"}

CategoricalFigures == {j \in DOMAIN figures : figures[j].kind = "XErrorBars"}

\* C4: in numeric mode every figure has its x values ascending, the three
\* figures share that x sequence, and row i of each figure takes its x, its
\* point estimate and both bounds from one and the same usable entry.
C4_NumericRowsAligned ==
    \A j \in NumericFigures :
        LET f == figures[j]
        IN  /\ Ascending(f.x)
            /\ f.x = figures[1].x
            /\ Len(f.x) = Cardinality(Usable(f.path.sample))
            /\ Len(f.y) = Len(f.x) /\ Len(f.y_low) = Len(f.x) /\ Len(f.y_high) = Len(f.x)
            /\ \E row \in Rows(Len(f.x), Usable(f.path.sample)) :
                \A i \in DOMAIN f.x :
                    LET e == EstimateAt(row[i], f)
                    IN  /\ contents[row[i]].name = NatToStr(f.x[i])
                        /\ f.y[i] = e.point_estimate
                        /\ f.y_low[i] = e.confidence_interval.lower_bound
                        /\ f.y_high[i] = e.confidence_interval.upper_bound

\* C4 witness: the ids arrive as "10", "1", "2" and the Slope figure, the
\* last of the three, is drawn over x = 1, 2, 10.
C4_Witness ==
    /\ pc = "draw"
    /\ mode = "numeric"
    /\ Len(contents) = 3
    /\ contents[1].name = <<"1", "0">>
    /\ Len(figures) = 3
    /\ figures[3].statistic = "Slope"
    /\ figures[3].x = <<1, 2, 10>>
    /\ figures[3].y = <<20, 5, 10>>

\* The hundredths a two-decimal text stands for, e.g. "2.00" |-> 200.
Hundredths(text) ==
    LET n == Len(text)
    IN  100 * ParseDigits(SubSeq(text, 1, n - 3), 0).val
          + 10 * DigitVal(text[n - 1]) + DigitVal(text[n])

SetMin(S) == CHOOSE m \in S : \A v \in S : m <= v

\* C5: in every categorical statistic figure the rows are descending by the
\* statistic's point estimate; the ratio of row i is the point estimate of
\* row i over the smallest point estimate of the figure, to two decimals;
\* the smallest entry has "1.00"; row i carries the label, the estimate and
\* the ratio of one and the same entry; and for the point estimates 10, 5, 20
\* the ratios are "2.00", "1.00", "4.00".
C5_CategoricalRatios ==
    \A j \in CategoricalFigures :
        LET f == figures[j]
            m == SetMin(Range(f.x))
        IN  /\ Descending(f.x)
            /\ Len(f.right_labels) = Len(f.x)
            /\ Len(f.left_labels) = Len(f.x)
            /\ \A i \in DOMAIN f.x :
                LET t == f.right_labels[i]
                IN  /\ Len(t) >= 4
                    /\ t[Len(t) - 2] = "."
                    /\ 2 * (100 * f.x[i] - Hundredths(t) * m) <= m
                    /\ 2 * (Hundredths(t) * m - 100 * f.x[i]) <= m
                    /\ f.x[i] = m => t = <<"1", ".", "0", "0">>
            /\ \E row \in Rows(Len(f.x), Usable(f.path.sample)) :
                \A i \in DOMAIN f.x :
                    /\ f.left_labels[i] = contents[row[i]].name
                    /\ f.x[i] = EstimateAt(row[i], f).point_estimate
            /\ Range(f.x) = {10, 5, 20} =>
                \A i \in DOMAIN f.x :
                    f.right_labels[i] =
                        IF f.x[i] = 10 THEN <<"2", ".", "0", "0">>
                        ELSE IF f.x[i] = 5 THEN <<"1", ".", "0", "0">>
                        ELSE <<"4", ".", "0", "0">>

\* C5 witness: the Mean figure of "base" over the entries "1", "a", "2",
\* whose means are 10, 5, 20.
C5_Witness ==
    /\ pc = "draw"
    /\ Samples[s] = "base"
    /\ Len(figures) = 1
    /\ figures[1].kind = "XErrorBars"
    /\ names_of(contents) = << <<"1">>, <<"a">>, <<"2">> >>
    /\ figures[1].x = <<20, 10, 5>>
    /\ figures[1].left_labels = << <<"2">>, <<"1">>, <<"a">> >>
    /\ figures[1].right_labels =
        << <<"4", ".", "0", "0">>, <<"2", ".", "0", "0">>, <<"1", ".", "0", "0">> >>

\* C6: in categorical mode the figures are built in the order Mean, Slope,
\* Median, violin plot, and the rows of the violin plot are those of the
\* Median figure: the same labels in the same order, descending by Median
\* point estimate, each row with the curve and the median marker of the
\* sample of that row's entry.
C6_ViolinFollowsMedian ==
    /\ \A j \in CategoricalFigures :
        /\ j <= 3
        /\ figures[j].statistic = <<"Mean", "Slope", "Median">>[j]
    /\ \A j \in DOMAIN figures :
        figures[j].kind = "Violin" =>
            LET v   == figures[j]
                med == figures[3]
            IN  /\ j = 4
                /\ med.kind = "XErrorBars"
                /\ med.statistic = "Median"
                /\ v.left_labels = med.left_labels
                /\ Len(v.kdes) = Len(v.left_labels)
                /\ Len(v.medians) = Len(v.left_labels)
                /\ \E row \in Rows(Len(v.left_labels), Usable(v.path.sample)) :
                    \A i \in DOMAIN v.left_labels :
                        LET e  == contents[row[i]]
                            at == avg_times(e.iters, e.times)
                        IN  /\ v.left_labels[i] = e.name
                            /\ med.x[i] = EstimateAt(row[i], med).point_estimate
                            /\ v.kdes[i].over = at
                            /\ v.medians[i] \in Range(at)
                            /\ 2 * Cardinality({n \in DOMAIN at : at[n] < v.medians[i]}) < Len(at)
                            /\ 2 * Cardinality({n \in DOMAIN at : at[n] > v.medians[i]}) < Len(at)
                /\ Descending(med.x)

\* C6 witness: a violin plot is being drawn whose row order is neither that
\* of the Mean figure nor that of the Slope figure.
C6_Witness ==
    /\ pc = "draw"
    /\ Len(figures) = 4
    /\ figures[4].kind = "Violin"
    /\ Len(figures[4].left_labels) = 3
    /\ figures[4].left_labels # figures[1].left_labels
    /\ figures[4].left_labels # figures[2].left_labels

\* C7: the entry list of a generation is exactly the loadable candidates of
\* contents, in input order, each with its own label, estimates and average
\* times; the excluded entries raise nothing.
C7_UnloadableExcluded ==
    pc = "check_len" =>
        LET sample == Samples[s]
            kept   == SelectSeq(contents, LAMBDA e : Loads(e, sample))
        IN  /\ Len(benches) = Cardinality(Usable(sample))
            /\ Len(benches) = Len(kept)
            /\ \A i \in DOMAIN kept :
                /\ benches[i].label = kept[i].name
                /\ benches[i].estimates = kept[i].estimates[sample]
                /\ benches[i].sample = avg_times(kept[i].iters, kept[i].times)
            /\ abort = "none"
            /\ log = {sp \in log : sp.sample # sample}

\* C7 witness: of three ids one is a directory whose sample data does not
\* load, one is named "summary", and the third is the only entry kept.
C7_Witness ==
    /\ pc = "check_len"
    /\ Len(contents) = 3
    /\ Len(benches) = 1
    /\ \E i \in DOMAIN contents :
        /\ contents[i].is_dir
        /\ contents[i].est_ok[Samples[s]]
        /\ ~contents[i].sample_ok[Samples[s]]
    /\ \E i \in DOMAIN contents : contents[i].name = SUMMARY

\* The figure handed to draw, while pc = "draw" or after draw panicked.
Staged == figures[Len(figures)].path

svg_path(sp) == set_extension(sp, "svg")

\* C8: with the debug flag on, the script of a figure is written (or its
\* write failure logged) before the figure's render is launched, under the
\* figure's path with the extension replaced; whatever the write did, the
\* render is launched next and its handle is collected and returned; with
\* the flag off no script is written and nothing is logged.
C8_DebugScriptNonFatal ==
    /\ debug =>
        /\ \A j \in DOMAIN launched : script_path(launched[j]) \in scripts \cup log
        /\ pc = "draw" =>
            /\ script_path(Staged) \in scripts \cup log
            /\ Staged \notin Range(launched)
    /\ ~debug => (scripts = {} /\ log = {})
    /\ scripts \cap log = {}
    /\ \A sp \in scripts \cup log :
        /\ sp.ext = "gnuplot"
        /\ \/ svg_path(sp) \in Range(launched)
           \/ pc = "draw" /\ Staged = svg_path(sp)
           \/ pc = "panicked" /\ abort = "launch" /\ Staged = svg_path(sp)
    /\ \A j \in DOMAIN launched :
        \/ Child(launched[j]) \in Range(all_gnuplots \o gnuplots)
        \/ pc = "returned"
    /\ (pc = "returned" /\ mkdirs = dirs) =>
        \A j \in DOMAIN launched : Child(launched[j]) \in Range(result)

\* C8 witness: summarize has returned the handle of a render whose script
\* could not be written.
C8_Witness ==
    /\ debug
    /\ pc = "returned"
    /\ \E sp \in log : Child(svg_path(sp)) \in Range(result)
    /\ scripts # {}

\* C9: once a launch has failed the call has panicked: it never returns a
\* handle collection and launches nothing more.
C9_LaunchAbortInv ==
    abort = "launch" => (pc = "panicked" /\ result = <<>>)

C9_LaunchAbortStep ==
    abort = "launch" => UNCHANGED <<pc, launched, result, gnuplots, all_gnuplots>>

C9_LaunchFailureAborts == []C9_LaunchAbortInv /\ [][C9_LaunchAbortStep]_vars

\* C9 witness: the launch of the second figure of a generation failed after
\* the first one was launched, with figures still to come.
C9_Witness ==
    /\ abort = "launch"
    /\ pc = "panicked"
    /\ Len(launched) >= 1
    /\ k = 2
    /\ k < NumFigures(mode)

\* ns < bound, ns a rational and bound an integer, by cross-multiplication.
Below(x, bound) == x.num < bound * x.den

\* C10: scale_time follows the half-open threshold table.
C10_ScaleTimeTable ==
    scaled # <<>> =>
        /\ Len(scaled) = 1
        /\ Below(ns, 1) => scaled[1] = <<3, "p">>
        /\ (~Below(ns, 1) /\ Below(ns, 1000)) => scaled[1] = <<0, "n">>
        /\ (~Below(ns, 1000) /\ Below(ns, 1000000)) => scaled[1] = <<-3, "u">>
        /\ (~Below(ns, 1000000) /\ Below(ns, 1000000000)) => scaled[1] = <<-6, "m">>
        /\ ~Below(ns, 1000000000) => scaled[1] = <<-9, "">>

\* C10 witness: the input 0.5 ns, inside (0, 1), gave ("p", 1e3).
C10_Witness ==
    /\ ns = [num |-> 1, den |-> 2]
    /\ scaled = << <<3, "p">> >>

\* C11 as claimed: at ns = 1e3 scale_time returns ("n", 1e0).
C11_ThousandIsNano ==
    (scaled # <<>> /\ ns.num = 1000 * ns.den) => scaled[1] = <<0, "n">>

\* C11 amended: the intervals are half-open, so at ns = 1e3 scale_time
\* returns ("u", 1e-3), neither "n" nor "p"; the boundary at which it returns
\* ("n", 1e0) and not "p" is ns = 1.
C11_ThousandIsMicro ==
    scaled # <<>> =>
        /\ ns.num = 1000 * ns.den => scaled[1] = <<-3, "u">>
        /\ ns.num = ns.den => scaled[1] = <<0, "n">>

\* C11 witness: scale_time was applied to exactly 1e3 ns.
C11_Witness ==
    /\ ns = Real(1000)
    /\ scaled = << <<-3, "u">> >>

(***************************************************************************)
(* SpecPdf: one call of pdf (src/plot/mod.rs:117-315)                      *)
(***************************************************************************)
\* largest number of points of the labeled sample
MaxPoints == 3

\* The outlier classification of a point.
Labels == {"NotAnOutlier", "LowMild", "HighMild", "LowSevere", "HighSevere"}

is_outlier(label) == label # "NotAnOutlier"

is_mild(label) == label \in {"LowMild", "HighMild"}

is_severe(label) == label \in {"LowSevere", "HighSevere"}

\* The labels the three Points series keep: !is_outlier, is_mild, is_severe.
CleanLabels == {l \in Labels : ~is_outlier(l)}

\* A mild series that also keeps the severe outliers (is_outlier for is_mild).
MildLabels_outliers == {l \in Labels : is_outlier(l)}

MildLabels == {l \in Labels : is_mild(l)}

SevereLabels == {l \in Labels : is_severe(l)}

\* labeled_sample.iter().filter_map(|(t, label)| if keep { Some(t) } else { None })
RECURSIVE series_x(_, _)
series_x(ls, keep) ==
    IF ls = <<>> THEN <<>>
    ELSE (IF Head(ls)[2] \in keep THEN <<Head(ls)[1]>> ELSE <<>>)
            \o series_x(Tail(ls), keep)

\* labeled_sample.iter().zip(data.x().iter())
\*     .filter_map(|((_, label), i)| if keep { Some(i) } else { None })
RECURSIVE series_y(_, _, _)
series_y(ls, x, keep) ==
    IF ls = <<>> \/ x = <<>> THEN <<>>
    ELSE (IF Head(ls)[2] \in keep THEN <<Head(x)>> ELSE <<>>)
            \o series_y(Tail(ls), Tail(x), keep)

\* Points { x: .., y: .. } for one class of labels
points_series(ls, x, keep) == [x |-> series_x(ls, keep), y |-> series_y(ls, x, keep)]

\* floor(log10(n)) for n >= 1
RECURSIVE Log10Floor(_)
Log10Floor(n) == IF n < 10 THEN 0 ELSE 1 + Log10Floor(n \div 10)

\* (max_iters.log10() / 3.).floor() as i32 * 3
iters_exponent(max_iters) == (Log10Floor(max_iters) \div 3) * 3

\* kde::sweep(&labeled_sample, KDE_POINTS, None): an external routine, the
\* curve is represented by the sample it was swept over.
sweep_of(sample) == [over |-> sample]

\* The path handed to pdf.
pdf_path == [sample |-> "new", stem |-> <<"pdf">>, ext |-> "svg"]

\* The figure pdf builds.  The fences come with the labeled sample and are
\* drawn as four vertical lines; they take no part in the point series.
pdf_figure(ls, x) ==
    LET times     == [i \in DOMAIN ls |-> ls[i][1]]
        max_iters == SeqMax(x)
        exponent  == iters_exponent(max_iters)
        st        == scale_time(Real(SeqMax(times)))
    IN  [kind |-> "Pdf", path |-> pdf_path,
         scale |-> st[1], prefix |-> st[2],
         y_scale |-> 0 - exponent,
         y_label |-> IF exponent = 0 THEN <<"Iterations">>
                     ELSE <<"Iterations (x 10^", exponent, ")">>,
         kde |-> sweep_of(times),
         vertical |-> <<0, max_iters>>,
         clean |-> points_series(ls, x, CleanLabels),
         mild |-> points_series(ls, x, MildLabels),
         severe |-> points_series(ls, x, SevereLabels)]

\* The times of a labeled sample and the distance between iteration counts.
PdfTimes == {3, 4}

PdfIterSteps == {1, 4}

\* What every specification other than Spec starts summarize's variables at.
SummarizeIdle ==
    /\ contents = <<>>
    /\ s = 1
    /\ benches = <<>>
    /\ mode = "none"
    /\ k = 1
    /\ figures = <<>>
    /\ gnuplots = <<>>
    /\ all_gnuplots = <<>>
    /\ result = <<>>
    /\ abort = "none"
    /\ launched = <<>>
    /\ mkdirs = {}
    /\ dirs = {}
    /\ scripts = {}
    /\ log = {}
    /\ ns = Real(0)
    /\ scaled = <<>>

InitPdf ==
    /\ SummarizeIdle
    /\ debug \in BOOLEAN
    /\ pc = "plot"
    /\ func = "pdf"
    /\ \E n \in 1..MaxPoints :
        /\ labeled_sample \in [1..n -> PdfTimes \X Labels]
        /\ \E d \in PdfIterSteps : data_x = [i \in 1..n |-> d * i]
    /\ curve_xs = <<>>
    /\ curve_ys = <<>>
    /\ query = <<>>
    /\ geom = <<>>
    /\ distributions = <<>>
    /\ estimates = <<>>
    /\ nt = 0

\* pdf up to debug_script(&path, &figure)
PdfFigure ==
    /\ func = "pdf"
    /\ pc = "plot"
    /\ figures = <<>>
    /\ LET figure == pdf_figure(labeled_sample, data_x)
       IN  /\ figures' = <<figure>>
           /\ debug_script(figure.path)
    /\ UNCHANGED <<debug, contents, s, benches, mode, k, gnuplots,
                   all_gnuplots, result, abort, launched, mkdirs, dirs>>
    /\ UNCHANGED scale_vars
    /\ UNCHANGED geom_vars

\* The Child of draw().unwrap() is the value of pdf.
PdfReturn ==
    /\ func = "pdf"
    /\ pc = "plot"
    /\ figures # <<>>
    /\ result' = gnuplots
    /\ pc' = "returned"
    /\ UNCHANGED <<debug, contents, s, benches, mode, k, figures, gnuplots,
                   all_gnuplots, abort, launched>>
    /\ UNCHANGED fs_vars
    /\ UNCHANGED scale_vars
    /\ UNCHANGED geom_vars

NextPdf ==
    \/ PdfFigure
    \/ Draw
    \/ PdfReturn

SpecPdf == InitPdf /\ [][NextPdf]_vars

\* The positions of the input whose label is in keep, in input order.
RECURSIVE PositionsOf(_, _, _)
PositionsOf(ls, keep, from) ==
    IF from > Len(ls) THEN <<>>
    ELSE (IF ls[from][2] \in keep THEN <<from>> ELSE <<>>)
            \o PositionsOf(ls, keep, from + 1)

PdfSeries(f) == <<f.clean, f.mild, f.severe>>

\* C12: the clean, mild and severe series of pdf partition the input: every
\* input index is the source of exactly one point of exactly one series, the
\* sizes add up to the input's, each series keeps the input order, and in
\* each series x and y have one length and pair the time and the iteration
\* count of the same input index.
C12_OutlierPartition ==
    \A j \in DOMAIN figures :
        figures[j].kind = "Pdf" =>
            LET f   == figures[j]
                n   == Len(labeled_sample)
                pos == << PositionsOf(labeled_sample, {"NotAnOutlier"}, 1),
                          PositionsOf(labeled_sample, {"LowMild", "HighMild"}, 1),
                          PositionsOf(labeled_sample, {"LowSevere", "HighSevere"}, 1) >>
            IN  /\ Len(f.clean.x) + Len(f.mild.x) + Len(f.severe.x) = n
                /\ \A i \in 1..n :
                    Cardinality({c \in 1..3 : i \in Range(pos[c])}) = 1
                /\ \A c \in 1..3 :
                    LET ser == PdfSeries(f)[c]
                    IN  /\ Len(ser.x) = Len(ser.y)
                        /\ Len(ser.x) = Len(pos[c])
                        /\ \A a, b \in DOMAIN pos[c] : a < b => pos[c][a] < pos[c][b]
                        /\ \A a \in DOMAIN pos[c] :
                            /\ ser.x[a] = labeled_sample[pos[c][a]][1]
                            /\ ser.y[a] = data_x[pos[c][a]]

\* C12 witness: a sample of three points, one clean between a severe and a
\* mild outlier, has been drawn.
C12_Witness ==
    /\ func = "pdf"
    /\ pc = "returned"
    /\ Len(labeled_sample) = 3
    /\ labeled_sample[1][2] = "HighSevere"
    /\ labeled_sample[2][2] = "NotAnOutlier"
    /\ labeled_sample[3][2] = "LowMild"
    /\ Len(figures[1].clean.x) = 1
    /\ Len(figures[1].mild.y) = 1
    /\ Len(figures[1].severe.y) = 1
    /\ Len(result) = 1

(***************************************************************************)
(* The marker and window geometry of abs_distributions and                 *)
(* rel_distributions (src/plot/mod.rs:435-450, 476-481, 543-558, 588-593). *)
(* Indices are those of the code, counted from 0: xs[i] is At(xs, i).      *)
(***************************************************************************)
At(seq, i) == seq[i + 1]

Indices(seq) == 0..(Len(seq) - 1)

\* xs.iter().enumerate().find(|&(_, &x)| x >= v), as an Option of the index
find_ge(xs, v) ==
    IF \A i \in Indices(xs) : At(xs, i) < v THEN None
    ELSE Some(CHOOSE i \in Indices(xs) :
                /\ At(xs, i) >= v
                /\ \A j \in 0..(i - 1) : At(xs, j) < v)

\* xs.iter().enumerate().rev().find(|&(_, &x)| x <= v)
rfind_le(xs, v) ==
    IF \A i \in Indices(xs) : At(xs, i) > v THEN None
    ELSE Some(CHOOSE i \in Indices(xs) :
                /\ At(xs, i) <= v
                /\ \A j \in (i + 1)..(Len(xs) - 1) : At(xs, j) > v)

\* An interpolation that measures p from the right-hand grid point.
interpolate_from_right(xs, ys, n_p, p) ==
    LET dx == At(xs, n_p) - At(xs, n_p - 1)
        dy == At(ys, n_p) - At(ys, n_p - 1)
    IN  [num |-> At(ys, n_p - 1) * dx + dy * (p - At(xs, n_p)), den |-> dx]

\* ys[n_p - 1] + (ys[n_p] - ys[n_p - 1]) / (xs[n_p] - xs[n_p - 1]) * (p - xs[n_p - 1])
\* for n_p >= 1, as the exact rational num/den (den = 0: a division by zero,
\* which in f64 gives an infinity or a NaN).
interpolate(xs, ys, n_p, p) ==
    LET dx == At(xs, n_p) - At(xs, n_p - 1)
        dy == At(ys, n_p) - At(ys, n_p - 1)
    IN  [num |-> At(ys, n_p - 1) * dx + dy * (p - At(xs, n_p - 1)), den |-> dx]

\* The builds: usize arithmetic panics on overflow in a debug build and
\* wraps in a release build.
Builds == {"debug", "release"}

\* iter.skip(start).take(len) over a sequence of n items, as the indices
\* taken.  A negative len stands for the wrapped difference 2^64 + len, which
\* is more than any sequence holds.
skip_take(n, start, len) ==
    LET count == IF len < 0 \/ len > n - start THEN n - start ELSE len
    IN  [i \in 1..count |-> start + i - 1]

\* The geometry of one figure, up to the first panic:
\*   n_p, y_p      the index found for the point estimate and the height;
\*   start, end    the window of the confidence interval; len = end - start;
\*   fill          the indices of the points of the FilledCurve.
\* Fields not reached keep -1.
geometry(xs, ys, p, lb, ub, build) ==
    LET blank  == [panic |-> "none", n_p |-> -1, y_p |-> [num |-> 0, den |-> 1],
                   start |-> -1, end |-> -1, len |-> -1, fill |-> <<>>]
        found  == find_ge(xs, p)
        first  == find_ge(xs, lb)
        last   == rfind_le(xs, ub)
    IN  IF ~found.some THEN [blank EXCEPT !.panic = "unwrap_p"]
        ELSE IF found.val = 0 THEN [blank EXCEPT !.panic = "index", !.n_p = 0]
        ELSE LET g1 == [blank EXCEPT !.n_p = found.val,
                                     !.y_p = interpolate(xs, ys, found.val, p)]
             IN  IF ~first.some THEN [g1 EXCEPT !.panic = "unwrap_start"]
                 ELSE IF ~last.some
                      THEN [g1 EXCEPT !.panic = "unwrap_end", !.start = first.val]
                 ELSE LET g2 == [g1 EXCEPT !.start = first.val, !.end = last.val]
                      IN  IF last.val < first.val /\ build = "debug"
                          THEN [g2 EXCEPT !.panic = "sub"]
                          ELSE [g2 EXCEPT
                                  !.len = last.val - first.val,
                                  !.fill = skip_take(Len(xs), first.val,
                                                     last.val - first.val)]

(***************************************************************************)
(* SpecCurve: the geometry on small curves                                 *)
(***************************************************************************)
\* longest curve
MaxGrid == 3
\* largest x of a curve and of a query
MaxX == 5

\* The curves: xs strictly ascending.
CurveXs ==
    UNION { {x \in [1..n -> 0..MaxX] : \A i, j \in 1..n : i < j => x[i] < x[j]}
            : n \in 2..MaxGrid }

CurveHeights == {1, 4}

InitCurve ==
    /\ SummarizeIdle
    /\ debug = FALSE
    /\ pc = "curve"
    /\ func = "geometry"
    /\ curve_xs \in CurveXs
    /\ curve_ys \in [DOMAIN curve_xs -> CurveHeights]
    /\ query \in {q \in [p : 0..MaxX, lb : 0..MaxX, ub : 0..MaxX] : q.lb <= q.ub}
    /\ geom = <<>>
    /\ labeled_sample = <<>>
    /\ data_x = <<>>
    /\ distributions = <<>>
    /\ estimates = <<>>
    /\ nt = 0

\* let n_p = ..; let y_p = ..; let start = ..; let end = ..; let len = ..;
Geometry ==
    /\ pc = "curve"
    /\ geom = <<>>
    /\ \E build \in Builds :
        geom' = <<geometry(curve_xs, curve_ys, query.p, query.lb, query.ub, build)>>
    /\ UNCHANGED <<debug, contents, pc, s, benches, mode, k, figures, gnuplots,
                   all_gnuplots, result, abort, launched>>
    /\ UNCHANGED fs_vars
    /\ UNCHANGED scale_vars
    /\ UNCHANGED <<func, labeled_sample, data_x, curve_xs, curve_ys, query,
                   distributions, estimates, nt>>

NextCurve == Geometry

SpecCurve == InitCurve /\ [][NextCurve]_vars

\* The indices k with p = xs[k].
GridHits == {i \in Indices(curve_xs) : At(curve_xs, i) = query.p}

HeightIs(g, y) == g.y_p.den # 0 /\ g.y_p.num = y * g.y_p.den

\* C13 as claimed: whenever p = xs[k], k = 0 included, the height computed
\* is ys[k].
C13_ExactAtEveryGridPoint ==
    geom # <<>> =>
        \A i \in GridHits :
            /\ geom[1].panic \notin {"unwrap_p", "index"}
            /\ HeightIs(geom[1], At(curve_ys, i))

\* C13 amended: whenever p = xs[k] with k >= 1 the height is ys[k] (in exact
\* arithmetic); for p = xs[0] the index found is 0 and ys[n_p - 1] panics.
C13_ExactAtInnerGridPoint ==
    geom # <<>> =>
        \A i \in GridHits :
            IF i >= 1
            THEN /\ geom[1].n_p = i
                 /\ geom[1].panic \notin {"unwrap_p", "index"}
                 /\ HeightIs(geom[1], At(curve_ys, i))
            ELSE geom[1].panic = "index"

\* C13 witness: p is the last grid point of a three-point curve whose last
\* two heights differ.
C13_Witness ==
    /\ geom # <<>>
    /\ Len(curve_xs) = 3
    /\ query.p = At(curve_xs, 2)
    /\ At(curve_ys, 1) # At(curve_ys, 2)
    /\ geom[1].n_p = 2
    /\ HeightIs(geom[1], At(curve_ys, 2))

C17_FillInclusive ==
    (geom # <<>> /\ geom[1].panic = "none" /\ geom[1].len >= 0) =>
        /\ Range(geom[1].fill) = geom[1].start..geom[1].end
        /\ Len(geom[1].fill) = geom[1].end - geom[1].start + 1

(***************************************************************************)
(* SpecDist: abs_distributions and rel_distributions                       *)
(* (src/plot/mod.rs:412-504, 507-629)                                      *)
(***************************************************************************)
\* static KDE_POINTS: usize = 500;
KDE_POINTS == 500

DistFuncs == {"abs_distributions", "rel_distributions"}

\* itertools_num::linspace(a, b, n): n points from a to b, both included
linspace(a, b, n) == [i \in 1..n |-> a + ((i - 1) * (b - a)) \div (n - 1)]

\* kde::sweep(distribution, npoints, Some((start, end))): the density is
\* evaluated on linspace(start, end, npoints).  The heights are those of a
\* single bump; only that they are positive and vary matters here.
sweep(distribution, npoints, start, end) ==
    [xs |-> linspace(start, end, npoints),
     ys |-> [i \in 1..npoints |-> IF 2 * i <= npoints THEN i ELSE npoints + 1 - i]]

\* if nt < x_min || -nt > x_max { (middle, middle) } else { (clamped) }
\* with the ends left as they are instead of clamped to the domain
noise_band_unclamped(threshold, x_min, x_max) ==
    IF threshold < x_min \/ -threshold > x_max
    THEN LET middle == (x_min + x_max) \div 2 IN <<middle, middle>>
    ELSE <<-threshold, threshold>>

\* let (fc_start, fc_end) = if nt < x_min || -nt > x_max { .. } else { .. };
noise_band(threshold, x_min, x_max) ==
    IF threshold < x_min \/ -threshold > x_max
    THEN LET middle == (x_min + x_max) \div 2 IN <<middle, middle>>
    ELSE <<IF -threshold < x_min THEN x_min ELSE -threshold,
           IF threshold > x_max THEN x_max ELSE threshold>>

\* Sample::min and Sample::max of a sample that is not empty: the least and
\* the greatest of xs[lo..hi], taken half by half.
RECURSIVE min_of(_, _, _)
min_of(xs, lo, hi) ==
    IF lo = hi THEN xs[lo]
    ELSE LET mid == (lo + hi) \div 2
             a   == min_of(xs, lo, mid)
             b   == min_of(xs, mid + 1, hi)
         IN  IF b < a THEN b ELSE a

RECURSIVE max_of(_, _, _)
max_of(xs, lo, hi) ==
    IF lo = hi THEN xs[lo]
    ELSE LET mid == (lo + hi) \div 2
             a   == max_of(xs, lo, mid)
             b   == max_of(xs, mid + 1, hi)
         IN  IF b > a THEN b ELSE a

sample_min(xs) == min_of(xs, 1, Len(xs))

sample_max(xs) == max_of(xs, 1, Len(xs))

\* A path that names the same statistic for every key.
dist_path_mean(f, statistic) ==
    [sample |-> IF f = "abs_distributions" THEN "new" ELSE "change",
     stem |-> <<"Mean">>, ext |-> "svg"]

\* format!("{}/{}/new/{}.svg", ..) and format!("{}/{}/change/{}.svg", ..)
dist_path(f, statistic) ==
    [sample |-> IF f = "abs_distributions" THEN "new" ELSE "change",
     stem |-> <<statistic>>, ext |-> "svg"]

\* The curve one closure call sweeps for its estimate.
dist_curve(estimate) ==
    LET lb    == estimate.confidence_interval.lower_bound
        ub    == estimate.confidence_interval.upper_bound
        start == lb - (ub - lb) \div 9
        end   == ub + (ub - lb) \div 9
    IN  sweep("distribution", KDE_POINTS, start, end)

\* The figure of one statistic whose geometry is g.
dist_figure(f, statistic, estimate, g) ==
    LET x_min == sample_min(curve_xs)
        x_max == sample_max(curve_xs)
    IN  [kind |-> f, path |-> dist_path(f, statistic), statistic |-> statistic,
         x_min |-> x_min, x_max |-> x_max,
         fill |-> g.fill,
         marker |-> [x |-> estimate.point_estimate, y |-> g.y_p],
         band |-> IF f = "rel_distributions" THEN noise_band(nt, x_min, x_max)
                  ELSE <<>>]

\* The widths of the confidence intervals are whole multiples of this, which
\* keeps the window, the grid and the midpoint whole numbers.
CiUnit == 2 * 9 * (KDE_POINTS - 1)

\* Lower bounds: times for abs_distributions, relative changes for
\* rel_distributions.
DistLowerBounds(f) ==
    IF f = "abs_distributions" THEN {2000, 20000} ELSE {-20000, -4000, 2000}

\* Estimates with lower_bound <= point_estimate <= upper_bound, the
\* interval either a single point or one unit wide.
DistEstimates(f) ==
    { [point_estimate |-> lb + (pos * width) \div 2,
       confidence_interval |-> [lower_bound |-> lb, upper_bound |-> lb + width]] :
        lb \in DistLowerBounds(f), width \in {0, CiUnit}, pos \in 0..2 }

\* The keys of a Distributions map, in the order of its iteration.
StatisticOrder == <<"Mean", "Median", "Slope">>

\* The Distributions maps: one key, or two neighbouring keys.
KeySeqs ==
    { SubSeq(StatisticOrder, a, b) :
        a \in 1..Len(StatisticOrder), b \in 1..Len(StatisticOrder) }
    \ ({<<>>} \cup {StatisticOrder})

NoiseThresholds == {0, 1000, 6000}

InitDist ==
    /\ SummarizeIdle
    /\ debug \in BOOLEAN
    /\ pc = "plot"
    /\ func \in DistFuncs
    /\ distributions \in KeySeqs
    /\ \E keys \in {Range(distributions)} \cup
                   {Range(distributions) \ {distributions[Len(distributions)]}} :
        estimates \in [keys -> DistEstimates(func)]
    /\ nt \in IF func = "rel_distributions" THEN NoiseThresholds ELSE {0}
    /\ labeled_sample = <<>>
    /\ data_x = <<>>
    /\ curve_xs = <<>>
    /\ curve_ys = <<>>
    /\ query = <<>>
    /\ geom = <<>>

\* One call of the closure of distributions.iter().map(..), up to the sweep:
\* estimates[&statistic] panics on a missing key.
DistSweep ==
    /\ func \in DistFuncs
    /\ pc = "plot"
    /\ k <= Len(distributions)
    /\ LET statistic == distributions[k]
       IN  IF statistic \notin DOMAIN estimates
           THEN /\ pc' = "panicked"
                /\ abort' = "key"
                /\ UNCHANGED <<curve_xs, curve_ys>>
           ELSE LET curve == dist_curve(estimates[statistic])
                IN  /\ curve_xs' = curve.xs
                    /\ curve_ys' = curve.ys
                    /\ pc' = "geometry"
                    /\ UNCHANGED abort
    /\ UNCHANGED <<debug, contents, s, benches, mode, k, figures, gnuplots,
                   all_gnuplots, result, launched>>
    /\ UNCHANGED fs_vars
    /\ UNCHANGED scale_vars
    /\ UNCHANGED <<func, labeled_sample, data_x, query, geom, distributions,
                   estimates, nt>>

\* The rest of the closure up to debug_script(&path, &figure): the geometry,
\* which panics on its first failed step, and the figure.
DistPlot ==
    /\ func \in DistFuncs
    /\ pc = "geometry"
    /\ LET statistic == distributions[k]
           estimate  == estimates[statistic]
       IN  \E build \in Builds :
             LET g == geometry(curve_xs, curve_ys,
                               estimate.point_estimate,
                               estimate.confidence_interval.lower_bound,
                               estimate.confidence_interval.upper_bound,
                               build)
             IN  /\ geom' = <<g>>
                 /\ IF g.panic # "none"
                    THEN /\ pc' = "panicked"
                         /\ abort' = "geometry"
                         /\ UNCHANGED <<figures, scripts, log>>
                    ELSE /\ figures' = Append(figures,
                               dist_figure(func, statistic, estimate, g))
                         /\ debug_script(dist_path(func, statistic))
                         /\ UNCHANGED abort
    /\ UNCHANGED <<debug, contents, s, benches, mode, k, gnuplots,
                   all_gnuplots, result, launched, mkdirs, dirs>>
    /\ UNCHANGED scale_vars
    /\ UNCHANGED <<func, labeled_sample, data_x, curve_xs, curve_ys, query,
                   distributions, estimates, nt>>

\* .collect::<Vec<_>>(), the value of the function
DistReturn ==
    /\ func \in DistFuncs
    /\ pc = "plot"
    /\ k > Len(distributions)
    /\ result' = gnuplots
    /\ pc' = "returned"
    /\ UNCHANGED <<debug, contents, s, benches, mode, k, figures, gnuplots,
                   all_gnuplots, abort, launched>>
    /\ UNCHANGED fs_vars
    /\ UNCHANGED scale_vars
    /\ UNCHANGED geom_vars

NextDist ==
    \/ DistSweep
    \/ DistPlot
    \/ Draw
    \/ DistReturn

SpecDist == InitDist /\ [][NextDist]_vars

RelFigures == {j \in DOMAIN figures : figures[j].kind = "rel_distributions"}

Max2(a, b) == IF a >= b THEN a ELSE b

Min2(a, b) == IF a <= b THEN a ELSE b

DistDirectory == IF func = "abs_distributions" THEN "new" ELSE "change"

\* C16: when abs_distributions or rel_distributions returns, it has launched
\* one chart per key of Distributions, in key order, each to the path named
\* after its statistic, and the result holds the handle of each; and with
\* the same key set in Estimates no lookup of a key fails.
C16_OneChartPerKey ==
    func \in DistFuncs =>
        /\ pc = "returned" =>
            /\ Len(result) = Len(distributions)
            /\ Len(launched) = Len(distributions)
            /\ \A i \in DOMAIN distributions :
                /\ launched[i].stem = <<distributions[i]>>
                /\ launched[i].sample = DistDirectory
                /\ launched[i].ext = "svg"
                /\ result[i] = Child(launched[i])
        /\ DOMAIN estimates = Range(distributions) => abort # "key"

\* C16 witness: a call with two keys has returned two handles.
C16_Witness ==
    /\ func \in DistFuncs
    /\ pc = "returned"
    /\ Len(distributions) = 2
    /\ Len(result) = 2
    /\ result[1] # result[2]

\* C18: the curve is swept over [lb - (ub-lb)/9, ub + (ub-lb)/9], and for
\* every estimate with lb <= p <= ub, lb = ub included, the geometry has no
\* domain error: the index found for p is at least 1, xs[n_p] # xs[n_p - 1],
\* and both window lookups find an index.
C18_NoDomainError ==
    (func \in DistFuncs /\ pc \in {"geometry", "draw", "panicked"}
        /\ abort \in {"none", "geometry"}) =>
        LET e  == estimates[distributions[k]]
            lb == e.confidence_interval.lower_bound
            ub == e.confidence_interval.upper_bound
        IN  /\ curve_xs[1] = lb - (ub - lb) \div 9
            /\ curve_xs[Len(curve_xs)] = ub + (ub - lb) \div 9
            /\ pc # "geometry" =>
                /\ geom[1].panic = "none"
                /\ geom[1].n_p >= 1
                /\ geom[1].y_p.den # 0

\* The file stems of the renders of a generation, in the order claimed.
ExpectedStems(sample) ==
    IF Cardinality(Usable(sample)) < 2 THEN <<>>
    ELSE IF \A i \in Usable(sample) : IsUnsignedInteger(contents[i].name)
         THEN << <<"Mean", "s">>, <<"Median", "s">>, <<"Slope", "s">> >>
         ELSE << <<"Mean", "s">>, <<"Slope", "s">>, <<"Median", "s">>,
                 <<"violin_plot">> >>

ExpectedPaths(sample) ==
    [i \in DOMAIN ExpectedStems(sample) |->
        [sample |-> sample, stem |-> ExpectedStems(sample)[i], ext |-> "svg"]]

IsPrefix(a, b) == Len(a) <= Len(b) /\ SubSeq(b, 1, Len(a)) = a

C19_HandlesInv ==
    (pc = "returned" /\ mkdirs = dirs) =>
        /\ launched = ExpectedPaths("new") \o ExpectedPaths("base")
        /\ result = [i \in DOMAIN launched |-> Child(launched[i])]

C19_FanOutStep ==
    /\ IsPrefix(launched, launched')
    /\ Len(launched') <= Len(launched) + 1
    /\ IsPrefix(all_gnuplots, all_gnuplots')
    /\ launched' # launched => gnuplots' = Append(gnuplots, Child(launched'[Len(launched')]))

\* C19: in a run of summarize in which every directory is created and every
\* launch succeeds, the result holds one handle per render launched, in
\* launch order: generation new before base, within a generation Mean,
\* Median, Slope in numeric mode and Mean, Slope, Median, violin plot in
\* categorical mode, none for a skipped generation; and every step launches
\* at most one render and keeps every handle collected so far, none is
\* taken out to be waited on.
C19_FanOutInLaunchOrder == []C19_HandlesInv /\ [][C19_FanOutStep]_vars

\* C19 witness: a call has returned the three handles of a numeric
\* generation new followed by the four of a categorical generation base.
C19_Witness ==
    /\ pc = "returned"
    /\ mkdirs = dirs
    /\ Len(ExpectedPaths("new")) = 3
    /\ Len(ExpectedPaths("base")) = 4
    /\ Len(result) = 7

=============================================================================
